---- MODULE Spec2Model ----
(***************************************************************************)
(* Model of .github/scripts/generate_index.py: the launcher-page generator *)
(* (walk -> collect -> sort -> render -> write) and its command line.      *)
(*                                                                         *)
(* A Python str is a sequence of one-character strings, so that suffix     *)
(* tests, replace, upper/lower, substring tests and the sort key are       *)
(* computed as the code computes them.  A path of the file system is a     *)
(* sequence of components (each a str), relative to the working directory. *)
(* Glyphs are written by their code points.                                *)
(***************************************************************************)
EXTENDS Naturals, Sequences, FiniteSets

(* ------------------------------ bounds --------------------------------- *)

\* at most this many files in the tree when the program is first started
MaxFiles == 3

\* at most this many successive runs of the program on the same arguments
MaxRuns == 2

(* --------------------------- str primitives ---------------------------- *)

Uppers ==
  <<"A","B","C","D","E","F","G","H","I","J","K","L","M",
    "N","O","P","Q","R","S","T","U","V","W","X","Y","Z">>

Lowers ==
  <<"a","b","c","d","e","f","g","h","i","j","k","l","m",
    "n","o","p","q","r","s","t","u","v","w","x","y","z">>

Others == <<" ", "-", ".", "/", "\\", "_">>

OtherCodes == <<32, 45, 46, 47, 92, 95>>

Chars ==
  {Uppers[i] : i \in 1..26} \cup {Lowers[i] : i \in 1..26}
    \cup {Others[i] : i \in 1..6}

IndexIn(c, tbl) ==
  IF \E i \in 1..Len(tbl) : tbl[i] = c
    THEN CHOOSE i \in 1..Len(tbl) : tbl[i] = c
    ELSE 0

\* ord(c): the code point of a character
ord ==
  [c \in Chars |->
     IF IndexIn(c, Uppers) > 0 THEN 64 + IndexIn(c, Uppers)
     ELSE IF IndexIn(c, Lowers) > 0 THEN 96 + IndexIn(c, Lowers)
     ELSE OtherCodes[IndexIn(c, Others)]]

lower_ch ==
  [c \in Chars |->
     IF IndexIn(c, Uppers) > 0 THEN Lowers[IndexIn(c, Uppers)] ELSE c]

upper_ch ==
  [c \in Chars |->
     IF IndexIn(c, Lowers) > 0 THEN Uppers[IndexIn(c, Lowers)] ELSE c]

\* str.lower()
lower(s) == [i \in 1..Len(s) |-> lower_ch[s[i]]]

\* str.upper()
upper(s) == [i \in 1..Len(s) |-> upper_ch[s[i]]]

\* str.endswith(suffix)
endswith(s, suffix) ==
  /\ Len(s) >= Len(suffix)
  /\ SubSeq(s, Len(s) - Len(suffix) + 1, Len(s)) = suffix

startswith(s, prefix) ==
  /\ Len(s) >= Len(prefix)
  /\ SubSeq(s, 1, Len(prefix)) = prefix

\* str.replace(old, new) for a non-empty old: every non-overlapping
\* occurrence, scanning from the left
RECURSIVE replace(_, _, _)
replace(s, old, new) ==
  IF Len(s) < Len(old) THEN s
  ELSE IF startswith(s, old)
    THEN new \o replace(SubSeq(s, Len(old) + 1, Len(s)), old, new)
    ELSE <<Head(s)>> \o replace(Tail(s), old, new)

\* the operator `sub in s` on str
contains(s, sub) ==
  \E i \in 0..(Len(s) - Len(sub)) : SubSeq(s, i + 1, i + Len(sub)) = sub

\* sep.join(parts)
RECURSIVE join(_, _)
join(sep, parts) ==
  IF parts = <<>> THEN <<>>
  ELSE IF Len(parts) = 1 THEN parts[1]
  ELSE parts[1] \o sep \o join(sep, Tail(parts))

\* str.split(sep) for a one-character sep
RECURSIVE split(_, _)
split(s, sep) ==
  IF \A i \in 1..Len(s) : s[i] # sep THEN <<s>>
  ELSE LET k == CHOOSE i \in 1..Len(s) :
                  s[i] = sep /\ \A j \in 1..(i - 1) : s[j] # sep
       IN <<SubSeq(s, 1, k - 1)>> \o split(SubSeq(s, k + 1, Len(s)), sep)

\* a < b on str: lexicographic by code point
RECURSIVE str_lt(_, _)
str_lt(a, b) ==
  IF b = <<>> THEN FALSE
  ELSE IF a = <<>> THEN TRUE
  ELSE IF ord[Head(a)] # ord[Head(b)] THEN ord[Head(a)] < ord[Head(b)]
  ELSE str_lt(Tail(a), Tail(b))

\* os.path.join(a, b) on POSIX
path_join2(a, b) ==
  IF startswith(b, <<"/">>) THEN b
  ELSE IF a = <<>> \/ endswith(a, <<"/">>) THEN a \o b
  ELSE a \o <<"/">> \o b

\* os.path.join(a, b, c)
path_join3(a, b, c) == path_join2(path_join2(a, b), c)

\* os.path.basename(p)
basename(p) == LET parts == split(p, "/") IN parts[Len(parts)]

\* the components a relative path string names, "." and empty ones dropped
\* (how the operating system, and a browser resolving an href, read it)
RECURSIVE drop_dots(_)
drop_dots(parts) ==
  IF parts = <<>> THEN <<>>
  ELSE IF Head(parts) = <<>> \/ Head(parts) = <<".">>
    THEN drop_dots(Tail(parts))
    ELSE <<Head(parts)>> \o drop_dots(Tail(parts))

components(p) == drop_dots(split(p, "/"))

(* ------------------------------ literals -------------------------------- *)

s_dot == <<".">>

s_html == <<".","h","t","m","l">>

s_index_html == <<"i","n","d","e","x",".","h","t","m","l">>

s_slash == <<"/">>

s_backslash == <<"\\">>

s_dash == <<"-">>

s_space == <<" ">>

s_sep == <<" ","/"," ">>

s_script ==
  <<"g","e","n","e","r","a","t","e","_","i","n","d","e","x",".","p","y">>

kw_NBA == <<"N","B","A">>

kw_NFL == <<"N","F","L">>

kw_MLB == <<"M","L","B">>

kw_WEATHER == <<"W","E","A","T","H","E","R">>

kw_MAP == <<"M","A","P">>

kw_GAME == <<"G","A","M","E">>

kw_FLIP == <<"F","L","I","P">>

kw_QWINGO == <<"Q","W","I","N","G","O">>

kw_LOGOMAP == <<"L","O","G","O","M","A","P">>

kw_PHOTO == <<"P","H","O","T","O">>

kw_PANEL == <<"P","A","N","E","L">>

kw_API == <<"A","P","I">>

kw_AIRPORT == <<"A","I","R","P","O","R","T">>

kw_RECEIPT == <<"R","E","C","E","I","P","T">>

kw_SPORTS == <<"S","P","O","R","T","S">>

\* the glyphs, by code point
icon_default == "U+1F4C4"

icon_nba == "U+1F3C0"

icon_nfl == "U+1F3C8"

icon_mlb == "U+26BE"

icon_weather == "U+1F326 U+FE0F"

icon_game == "U+1F3B2"

icon_logomap == "U+1F5FA U+FE0F"

icon_photo == "U+1F4F8"

icon_panel == "U+1F5A5 U+FE0F"

icon_api == "U+1F50C"

icon_airport == "U+2708 U+FE0F"

icon_receipt == "U+1F9FE"

icon_sports == "U+1F3C6"

(* ------------------------- the collector's parts ------------------------ *)

\* the suffix test alone: the launcher is not set aside
qualifies_any_html(filename) == endswith(filename, s_html)

\* the test of line 32: a .html file that is not the launcher itself
qualifies(filename) ==
  endswith(filename, s_html) /\ filename # s_index_html

\* os.path.relpath(root, apps_source_directory) for a root that os.walk
\* reached below the source directory: "." for the source directory itself
relpath(root, start) ==
  IF Len(root) = Len(start) THEN s_dot
  ELSE join(s_slash, SubSeq(root, Len(start) + 1, Len(root)))

\* lines 26-29
subfolder_name_of(relative_root_from_source) ==
  IF relative_root_from_source = s_dot THEN <<>>
  ELSE replace(relative_root_from_source, s_backslash, s_slash)

\* line 44
app_href_of(apps_source_directory, relative_root_from_source, filename) ==
  replace(path_join3(apps_source_directory, relative_root_from_source, filename),
          s_backslash, s_slash)

\* the href as it is: a case-sensitive order
sort_key_case_sensitive(x) == x[1]

\* the key of line 47
sort_key(x) == lower(x[1])

\* list.sort(key=...): stable, ascending by key
RECURSIVE insert_sorted(_, _)
insert_sorted(t, e) ==
  IF t = <<>> THEN <<e>>
  ELSE IF str_lt(sort_key(e), sort_key(t[Len(t)]))
    THEN Append(insert_sorted(SubSeq(t, 1, Len(t) - 1), e), t[Len(t)])
    ELSE Append(t, e)

RECURSIVE sorted(_)
sorted(s) ==
  IF s = <<>> THEN <<>>
  ELSE insert_sorted(sorted(SubSeq(s, 1, Len(s) - 1)), s[Len(s)])

(* -------------------------- the renderer's parts ------------------------ *)

\* lines 52-58
display_name_of(file_path, subfolder_name) ==
  LET base_filename == basename(file_path)
      name_parts ==
        (IF subfolder_name # <<>> THEN <<upper(subfolder_name)>> ELSE <<>>)
          \o <<upper(replace(replace(base_filename, s_html, <<>>),
                             s_dash, s_space))>>
  IN join(s_sep, name_parts)

\* the weather glyph only when MAP and WEATHER both occur
icon_of_weather_needs_map(display_name) ==
  IF contains(display_name, kw_NBA) THEN icon_nba
  ELSE IF contains(display_name, kw_NFL) THEN icon_nfl
  ELSE IF contains(display_name, kw_MLB) THEN icon_mlb
  ELSE IF contains(display_name, kw_MAP)
            /\ contains(display_name, kw_WEATHER) THEN icon_weather
  ELSE IF \/ contains(display_name, kw_GAME)
          \/ contains(display_name, kw_FLIP)
          \/ contains(display_name, kw_QWINGO) THEN icon_game
  ELSE IF contains(display_name, kw_LOGOMAP) THEN icon_logomap
  ELSE IF contains(display_name, kw_PHOTO) THEN icon_photo
  ELSE IF contains(display_name, kw_PANEL) THEN icon_panel
  ELSE IF contains(display_name, kw_API) THEN icon_api
  ELSE IF contains(display_name, kw_AIRPORT) THEN icon_airport
  ELSE IF contains(display_name, kw_RECEIPT) THEN icon_receipt
  ELSE IF contains(display_name, kw_SPORTS) THEN icon_sports
  ELSE icon_default

\* the chain as a series of independent tests: the last match wins
icon_of_last_match(display_name) ==
  LET i0 == icon_default
      i1 == IF contains(display_name, kw_NBA) THEN icon_nba ELSE i0
      i2 == IF contains(display_name, kw_NFL) THEN icon_nfl ELSE i1
      i3 == IF contains(display_name, kw_MLB) THEN icon_mlb ELSE i2
      i4 == IF contains(display_name, kw_WEATHER) THEN icon_weather ELSE i3
      i5 == IF \/ contains(display_name, kw_GAME)
               \/ contains(display_name, kw_FLIP)
               \/ contains(display_name, kw_QWINGO) THEN icon_game ELSE i4
      i6 == IF contains(display_name, kw_LOGOMAP) THEN icon_logomap ELSE i5
      i7 == IF contains(display_name, kw_PHOTO) THEN icon_photo ELSE i6
      i8 == IF contains(display_name, kw_PANEL) THEN icon_panel ELSE i7
      i9 == IF contains(display_name, kw_API) THEN icon_api ELSE i8
      i10 == IF contains(display_name, kw_AIRPORT) THEN icon_airport ELSE i9
      i11 == IF contains(display_name, kw_RECEIPT) THEN icon_receipt ELSE i10
  IN IF contains(display_name, kw_SPORTS) THEN icon_sports ELSE i11

\* lines 61-73
icon_of(display_name) ==
  IF contains(display_name, kw_NBA) THEN icon_nba
  ELSE IF contains(display_name, kw_NFL) THEN icon_nfl
  ELSE IF contains(display_name, kw_MLB) THEN icon_mlb
  ELSE IF \/ contains(display_name, kw_WEATHER)
          \/ (contains(display_name, kw_MAP)
                /\ contains(display_name, kw_WEATHER)) THEN icon_weather
  ELSE IF \/ contains(display_name, kw_GAME)
          \/ contains(display_name, kw_FLIP)
          \/ contains(display_name, kw_QWINGO) THEN icon_game
  ELSE IF contains(display_name, kw_LOGOMAP) THEN icon_logomap
  ELSE IF contains(display_name, kw_PHOTO) THEN icon_photo
  ELSE IF contains(display_name, kw_PANEL) THEN icon_panel
  ELSE IF contains(display_name, kw_API) THEN icon_api
  ELSE IF contains(display_name, kw_AIRPORT) THEN icon_airport
  ELSE IF contains(display_name, kw_RECEIPT) THEN icon_receipt
  ELSE IF contains(display_name, kw_SPORTS) THEN icon_sports
  ELSE icon_default

\* lines 75-83: one card of the grid
card_html_of(x) ==
  LET display_name == display_name_of(x[1], x[2])
  IN [part |-> "card", href |-> x[1], icon |-> icon_of(display_name),
      display_name |-> display_name, count |-> 0]

\* lines 85-143: the page, as the pieces that vary, in document order: the
\* shell up to the grid (it shows the count), one piece per card, the
\* closing of the shell
page_of(app_files_with_paths_) ==
  <<[part |-> "head", href |-> <<>>, icon |-> "", display_name |-> <<>>,
     count |-> Len(app_files_with_paths_)]>>
    \o [i \in 1..Len(app_files_with_paths_) |->
          card_html_of(app_files_with_paths_[i])]
    \o <<[part |-> "tail", href |-> <<>>, icon |-> "", display_name |-> <<>>,
          count |-> 0]>>

(* ------------------- the inputs: arguments and trees -------------------- *)

s_apps == <<"a","p","p","s">>

s_localonly == <<"l","o","c","a","l","o","n","l","y">>

s_weather == <<"w","e","a","t","h","e","r">>

s_game == <<"g","a","m","e">>

s_gone == <<"g","o","n","e">>

s_apps_weather == <<"a","p","p","s","/","w","e","a","t","h","e","r">>

s_extra == <<"e","x","t","r","a">>

s_apps_readme_md == <<"a","p","p","s","/","r","e","a","d","m","e",".","m","d">>

s_today_html == <<"t","o","d","a","y",".","h","t","m","l">>

s_nba_highlights_html == <<"n","b","a","-","h","i","g","h","l","i","g","h","t","s",".","h","t","m","l">>

s_flip_html == <<"f","l","i","p",".","h","t","m","l">>

s_Flip_html == <<"F","l","i","p",".","h","t","m","l">>

s_readme_md == <<"r","e","a","d","m","e",".","m","d">>

s_page_HTML == <<"p","a","g","e",".","H","T","M","L">>

s_today == <<"t","o","d","a","y">>

s_Nba == <<"N","b","a">>

s_v_html == <<"v",".","h","t","m","l">>

\* at most this many dash-separated words in a generated file name
MaxWords == 1

\* sys.argv of the runs explored: argv[1] is the script (Python's argv[0])
Argvs ==
  {<<s_script>>,
   <<s_script, s_apps>>,
   <<s_script, s_apps, s_dot>>,
   <<s_script, s_apps, s_apps>>,
   <<s_script, s_localonly, s_localonly>>,
   <<s_script, s_dot, s_dot>>,
   <<s_script, s_gone, s_dot>>,
   <<s_script, s_apps, s_gone>>,
   <<s_script, s_apps_weather, s_dot>>,
   <<s_script, s_apps_readme_md, s_dot>>,
   <<s_script, s_apps, s_dot, s_extra>>}

\* the files a small tree is made of, as paths from the working directory
SmallFiles ==
  {<<s_apps, s_weather, s_today_html>>,
   <<s_apps, s_index_html>>,
   <<s_apps, s_nba_highlights_html>>,
   <<s_apps, s_game, s_flip_html>>,
   <<s_apps, s_game, s_Flip_html>>,
   <<s_apps, s_readme_md>>,
   <<s_apps, s_page_HTML>>,
   <<s_apps, s_weather, s_index_html>>,
   <<s_apps, s_weather, s_game, s_flip_html>>,
   <<s_localonly, s_game, s_flip_html>>,
   <<s_index_html>>}

SmallTrees == {tr \in SUBSET SmallFiles : Cardinality(tr) <= MaxFiles}

\* words of generated file names: every keyword of the icon table, a word
\* that is none, a capitalised one, and one that holds ".html" itself
Tokens ==
  {lower(kw_NBA), lower(kw_NFL), lower(kw_MLB), lower(kw_WEATHER),
   lower(kw_MAP), lower(kw_GAME), lower(kw_FLIP), lower(kw_QWINGO),
   lower(kw_LOGOMAP), lower(kw_PHOTO), lower(kw_PANEL), lower(kw_API),
   lower(kw_AIRPORT), lower(kw_RECEIPT), lower(kw_SPORTS),
   s_today, s_Nba, s_v_html}

WideNames ==
  {join(s_dash, ws) \o s_html :
     ws \in UNION {[1..n -> Tokens] : n \in 1..MaxWords}}

\* the subfolder of a generated file below apps: none, or one directory
WideSubs ==
  {<<>>, <<s_weather>>, <<s_game>>, <<lower(kw_MAP)>>, <<lower(kw_SPORTS)>>}

\* one-file trees apps/[sub/]name over the generated names
WideTrees == {{<<s_apps>> \o sub \o <<nm>>} : sub \in WideSubs, nm \in WideNames}

\* directories that exist whatever the files are
BaseDirs == {<<>>, <<s_apps>>, <<s_localonly>>}

\* what a file holds: a sequence of page pieces; an application file and an
\* index.html that predates the runs hold one opaque piece each
Piece(kind) ==
  [part |-> kind, href |-> <<>>, icon |-> "", display_name |-> <<>>, count |-> 0]

AppContent == <<Piece("app")>>

OldIndex == <<Piece("old")>>

InitialFs(tr) ==
  [p \in tr |-> IF p[Len(p)] = s_index_html THEN OldIndex ELSE AppContent]

(* --------------------------- the file system ---------------------------- *)

Dirs(fsys) ==
  BaseDirs \cup UNION {{SubSeq(p, 1, k) : k \in 0..(Len(p) - 1)} : p \in DOMAIN fsys}

\* os.path.isdir(path)
isdir(fsys, path) ==
  /\ path # <<>>
  /\ components(path) \in Dirs(fsys)
  /\ components(path) \notin DOMAIN fsys

FilesIn(fsys, d) ==
  {p \in DOMAIN fsys : Len(p) = Len(d) + 1 /\ SubSeq(p, 1, Len(d)) = d}

SubdirsOf(fsys, d) ==
  {q \in Dirs(fsys) \ DOMAIN fsys :
     Len(q) = Len(d) + 1 /\ SubSeq(q, 1, Len(d)) = d}

\* the orders in which a directory listing may return a set of names
Orders(S) ==
  {o \in [1..Cardinality(S) -> S] :
     \A i, j \in 1..Cardinality(S) : i # j => o[i] # o[j]}

\* os.walk(top), top-down: a directory's own files, then each subdirectory
\* in turn; the listing order of either is the operating system's.  Each
\* element is <<root, filename>>, root as components.
RECURSIVE walk(_, _)
RECURSIVE walk_dirs(_, _)
walk(fsys, d) ==
  UNION {{[i \in 1..Len(fo) |-> <<d, fo[i][Len(fo[i])]>>] \o rest :
            rest \in walk_dirs(fsys, ds)} :
           fo \in Orders(FilesIn(fsys, d)), ds \in Orders(SubdirsOf(fsys, d))}

walk_dirs(fsys, ds) ==
  IF ds = <<>> THEN {<<>>}
  ELSE {a \o b : a \in walk(fsys, Head(ds)), b \in walk_dirs(fsys, Tail(ds))}

\* lines 23-45: the body of the walk loop over one traversal
RECURSIVE collect(_, _)
collect(w, source) ==
  IF w = <<>> THEN <<>>
  ELSE LET root == w[1][1]
           filename == w[1][2]
           relative_root_from_source == relpath(root, components(source))
           subfolder_name == subfolder_name_of(relative_root_from_source)
       IN (IF qualifies(filename)
             THEN <<<<app_href_of(source, relative_root_from_source, filename),
                      subfolder_name>>>>
             ELSE <<>>)
            \o collect(Tail(w), source)

\* line 145
output_path_of(output_index_directory_) ==
  path_join2(output_index_directory_, s_index_html)

\* the file system after open(output_path, "w") and a write of `text`
fs_with(fsys, path, text) ==
  [p \in DOMAIN fsys \cup {path} |-> IF p = path THEN text ELSE fsys[p]]

(* ------------------------------- state ---------------------------------- *)

VARIABLES
  argv,                    \* sys.argv
  fs,                      \* the files: path -> content
  fs_start,                \* fs as it was when the current run started
  pc,                      \* where the run is
  apps_source_directory,   \* the parameters of generate_index_html
  output_index_directory,
  app_files_with_paths,    \* the list of (app_href, subfolder_name)
  full_html_content,       \* the rendered page
  stdout,                  \* what the run has printed
  exit_status,             \* the exit status, once pc = "exit"
  run,                     \* which run of the program this is
  written                  \* the pages that the completed runs have written

vars ==
  <<argv, fs, fs_start, pc, apps_source_directory, output_index_directory,
    app_files_with_paths, full_html_content, stdout, exit_status, run, written>>

Line(kind, path, n) == [msg |-> kind, path |-> path, count |-> n]

StartOfRun ==
  /\ pc = "main"
  /\ apps_source_directory = <<>>
  /\ output_index_directory = <<>>
  /\ app_files_with_paths = <<>>
  /\ full_html_content = <<>>
  /\ stdout = <<>>
  /\ exit_status = 0

Init ==
  /\ \/ \E tr \in SmallTrees : fs = InitialFs(tr) /\ argv \in Argvs
     \/ \E tr \in WideTrees :
          fs = InitialFs(tr) /\ argv = <<s_script, s_apps, s_dot>>
  /\ fs_start = fs
  /\ run = 1
  /\ written = <<>>
  /\ StartOfRun

(* ------------------------------ the run --------------------------------- *)

\* what becomes of a print: the line reaches standard output; the write
\* raises (an unbuffered stdout on a full device or a closed pipe), which
\* is not handled; the line stays in the buffer and the flush at the exit
\* of the interpreter fails; or sys.stdout is None (the descriptor was
\* closed) and print does nothing
PrintOutcomes == {"printed", "raised", "lost", "none"}

\* print(line) as the last statement of a run that then ends with
\* `status`: an exception that is not handled ends it with 1, a failed
\* flush at exit with 120
print_then_exit(line, status, o) ==
  /\ stdout' = IF o = "printed" THEN Append(stdout, line) ELSE stdout
  /\ exit_status' =
       IF o = "raised" THEN 1 ELSE IF o = "lost" THEN 120 ELSE status
  /\ pc' = "exit"

\* one directory is enough: it is scanned and written into
Main_single_argument ==
  /\ pc = "main"
  /\ IF Len(argv) < 2
       THEN /\ \E o \in PrintOutcomes :
                 print_then_exit(Line("usage", <<>>, 0), 1, o)
            /\ UNCHANGED <<apps_source_directory, output_index_directory>>
       ELSE /\ apps_source_directory' = argv[2]
            /\ output_index_directory' = IF Len(argv) >= 3 THEN argv[3] ELSE argv[2]
            /\ pc' = "check"
            /\ UNCHANGED <<stdout, exit_status>>
  /\ UNCHANGED <<argv, fs, fs_start, app_files_with_paths, full_html_content,
                 run, written>>

\* lines 151-159: the command line
Main ==
  /\ pc = "main"
  /\ IF Len(argv) < 3
       THEN /\ \E o \in PrintOutcomes :
                 print_then_exit(Line("usage", <<>>, 0), 1, o)
            /\ UNCHANGED <<apps_source_directory, output_index_directory>>
       ELSE /\ apps_source_directory' = argv[2]
            /\ output_index_directory' = argv[3]
            /\ pc' = "check"
            /\ UNCHANGED <<stdout, exit_status>>
  /\ UNCHANGED <<argv, fs, fs_start, app_files_with_paths, full_html_content,
                 run, written>>

\* the error is printed and the run goes on
CheckSourceDir_no_exit ==
  /\ pc = "check"
  /\ IF ~isdir(fs, apps_source_directory)
       THEN /\ \E o \in PrintOutcomes :
                 stdout' = IF o = "printed"
                             THEN Append(stdout, Line("error",
                                                      apps_source_directory, 0))
                             ELSE stdout
            /\ pc' = "walk"
            /\ UNCHANGED exit_status
       ELSE /\ pc' = "walk"
            /\ UNCHANGED <<stdout, exit_status>>
  /\ UNCHANGED <<argv, fs, fs_start, apps_source_directory,
                 output_index_directory, app_files_with_paths,
                 full_html_content, run, written>>

\* lines 17-20: the source directory must be a directory
CheckSourceDir ==
  /\ pc = "check"
  /\ IF ~isdir(fs, apps_source_directory)
       THEN \E o \in PrintOutcomes :
              print_then_exit(Line("error", apps_source_directory, 0), 1, o)
       ELSE /\ pc' = "walk"
            /\ UNCHANGED <<stdout, exit_status>>
  /\ UNCHANGED <<argv, fs, fs_start, apps_source_directory,
                 output_index_directory, app_files_with_paths,
                 full_html_content, run, written>>

\* lines 23-45: walk the tree and collect the entries
Walk ==
  /\ pc = "walk"
  /\ \E w \in walk(fs, components(apps_source_directory)) :
       app_files_with_paths' = collect(w, apps_source_directory)
  /\ pc' = "sort"
  /\ UNCHANGED <<argv, fs, fs_start, apps_source_directory,
                 output_index_directory, full_html_content, stdout,
                 exit_status, run, written>>

\* line 47
Sort ==
  /\ pc = "sort"
  /\ app_files_with_paths' = sorted(app_files_with_paths)
  /\ pc' = "render"
  /\ UNCHANGED <<argv, fs, fs_start, apps_source_directory,
                 output_index_directory, full_html_content, stdout,
                 exit_status, run, written>>

\* lines 49-143
Render ==
  /\ pc = "render"
  /\ full_html_content' = page_of(app_files_with_paths)
  /\ pc' = "open"
  /\ UNCHANGED <<argv, fs, fs_start, apps_source_directory,
                 output_index_directory, app_files_with_paths, stdout,
                 exit_status, run, written>>

\* lines 145-146: open(output_path, "w") creates the file or truncates it
OpenOutput ==
  /\ pc = "open"
  /\ LET target == components(output_path_of(output_index_directory))
     IN /\ SubSeq(target, 1, Len(target) - 1) \in Dirs(fs) \ DOMAIN fs
        /\ fs' = fs_with(fs, target, <<>>)
  /\ pc' = "write"
  /\ UNCHANGED <<argv, fs_start, apps_source_directory,
                 output_index_directory, app_files_with_paths,
                 full_html_content, stdout, exit_status, run, written>>

\* line 146: open raises (no such directory, or the operating system
\* refuses); the exception is not handled, the interpreter exits with 1
OpenFails ==
  /\ pc = "open"
  /\ exit_status' = 1
  /\ pc' = "exit"
  /\ UNCHANGED <<argv, fs, fs_start, apps_source_directory,
                 output_index_directory, app_files_with_paths,
                 full_html_content, stdout, run, written>>

\* lines 146-147: the whole text is written and the file closed
WriteOutput ==
  /\ pc = "write"
  /\ fs' = fs_with(fs, components(output_path_of(output_index_directory)),
                   full_html_content)
  /\ written' = Append(written, full_html_content)
  /\ pc' = "report"
  /\ UNCHANGED <<argv, fs_start, apps_source_directory,
                 output_index_directory, app_files_with_paths,
                 full_html_content, stdout, exit_status, run>>

\* line 149: the count and the path are printed, the page being in the
\* file already; the function returns and the interpreter exits
Report ==
  /\ pc = "report"
  /\ \E o \in PrintOutcomes :
       print_then_exit(Line("generated",
                            output_path_of(output_index_directory),
                            Len(app_files_with_paths)), 0, o)
  /\ UNCHANGED <<argv, fs, fs_start, apps_source_directory,
                 output_index_directory, app_files_with_paths,
                 full_html_content, run, written>>

\* line 147: the write (or the flush on close) raises part-way, e.g. the
\* disk is full: a proper prefix of the text is in the file; the exception
\* is not handled, the interpreter exits with 1
WriteFails ==
  /\ pc = "write"
  /\ \E k \in 0..(Len(full_html_content) - 1) :
       fs' = fs_with(fs, components(output_path_of(output_index_directory)),
                     SubSeq(full_html_content, 1, k))
  /\ exit_status' = 1
  /\ pc' = "exit"
  /\ UNCHANGED <<argv, fs_start, apps_source_directory,
                 output_index_directory, app_files_with_paths,
                 full_html_content, stdout, run, written>>

\* the operator runs the program again, with the same arguments, after a
\* run that succeeded; nothing else touches the tree in between
Rerun ==
  /\ pc = "exit"
  /\ exit_status = 0
  /\ run < MaxRuns
  /\ run' = run + 1
  /\ fs_start' = fs
  /\ pc' = "main"
  /\ apps_source_directory' = <<>>
  /\ output_index_directory' = <<>>
  /\ app_files_with_paths' = <<>>
  /\ full_html_content' = <<>>
  /\ stdout' = <<>>
  /\ exit_status' = 0
  /\ UNCHANGED <<argv, fs, written>>

Next ==
  \/ Main
  \/ CheckSourceDir
  \/ Walk
  \/ Sort
  \/ Render
  \/ OpenOutput
  \/ OpenFails
  \/ WriteOutput
  \/ WriteFails
  \/ Report
  \/ Rerun

Spec == Init /\ [][Next]_vars

(* ------------------------------ the claims ------------------------------ *)

Exited == pc = "exit"

Succeeded == pc = "exit" /\ exit_status = 0

\* where the run writes, as a path of the file system
OutputFile == components(output_path_of(output_index_directory))

\* the positions of the cards in a page
CardsOf(page) == {i \in 1..Len(page) : page[i].part = "card"}

h_apps_weather_today == <<"a","p","p","s","/","w","e","a","t","h","e","r","/","t","o","d","a","y",".","h","t","m","l">>

h_apps_game_flip == <<"a","p","p","s","/","g","a","m","e","/","f","l","i","p",".","h","t","m","l">>

h_apps_game_Flip == <<"a","p","p","s","/","g","a","m","e","/","F","l","i","p",".","h","t","m","l">>

d_WEATHER_TODAY == <<"W","E","A","T","H","E","R"," ","/"," ","T","O","D","A","Y">>

d_SPORTS_NBA == <<"S","P","O","R","T","S"," ","/"," ","N","B","A">>

\* C1: after a successful run every entry's href, resolved against the
\* output directory (where index.html is), names a file of the tree.
C1_HrefsResolve ==
  Succeeded =>
    \A i \in 1..Len(app_files_with_paths) :
      components(path_join2(output_index_directory,
                            app_files_with_paths[i][1])) \in DOMAIN fs

\* C2 as claimed: a run given one existing directory ends with status 0 and
\* has written the page; status 1 only for no argument or a missing directory.
C2_SingleArgumentSucceeds ==
  (Exited /\ Len(argv) = 2 /\ isdir(fs_start, argv[2])) =>
    /\ exit_status = 0
    /\ Len(written) = run

\* C2 as amended: with fewer than two arguments the run scans and writes
\* nothing and ends with a status other than 0: 1 with the usage line
\* printed, or 1 or 120 with nothing printed when standard output cannot
\* be written; a run ends with status 0 only with both arguments, the
\* page then being in index.html of the output directory; a status other
\* than 0 comes from missing arguments, a source that is no directory, or
\* an open, write or final print that failed.
C2_TwoArgumentsRequired ==
  Exited =>
    /\ exit_status \in {0, 1, 120}
    /\ Len(argv) < 3 =>
         /\ exit_status \in {1, 120}
         /\ stdout \in {<<>>, <<Line("usage", <<>>, 0)>>}
         /\ stdout # <<>> => exit_status = 1
         /\ fs = fs_start
         /\ app_files_with_paths = <<>>
         /\ full_html_content = <<>>
    /\ exit_status = 0 =>
         /\ Len(argv) >= 3
         /\ OutputFile = components(argv[3]) \o <<s_index_html>>
         /\ fs[OutputFile] = full_html_content
    /\ exit_status # 0 =>
         \/ Len(argv) < 3
         \/ ~isdir(fs_start, argv[2])
         \/ /\ full_html_content # <<>>
            /\ stdout = <<>>

\* a run on the single argument apps, an existing directory that holds an
\* application, has ended with the usage line and status 1
C2_Witness ==
  /\ Exited
  /\ argv = <<s_script, s_apps>>
  /\ isdir(fs, s_apps)
  /\ <<s_apps, s_nba_highlights_html>> \in DOMAIN fs
  /\ exit_status = 1
  /\ stdout = <<Line("usage", <<>>, 0)>>

\* C3: when the run has ended, either it succeeded and the output file
\* holds the whole page, or it failed and the files are as they were when
\* it started.
C3_AllOrNothing ==
  Exited =>
    IF exit_status = 0
      THEN OutputFile \in DOMAIN fs /\ fs[OutputFile] = full_html_content
      ELSE fs = fs_start

\* C4 as claimed: when the source argument is not a directory the run
\* ends with status 1 having printed the error line with the path, and no
\* file is created or changed.
C4_ExitsOneAfterReporting ==
  (Exited /\ Len(argv) >= 3 /\ ~isdir(fs_start, argv[2])) =>
    /\ exit_status = 1
    /\ stdout = <<Line("error", argv[2], 0)>>
    /\ fs = fs_start

\* C4 as amended: when the source argument is not a directory the run,
\* from start to end, walks nothing, renders nothing and leaves every file
\* as it was, and it ends with a status other than 0: 1 when the error
\* line with the path was printed, 1 or 120 with nothing printed when
\* standard output cannot be written.
C4_MissingSourceWritesNothing ==
  (Len(argv) >= 3 /\ ~isdir(fs_start, argv[2])) =>
    /\ pc \in {"main", "check", "exit"}
    /\ fs = fs_start
    /\ app_files_with_paths = <<>>
    /\ full_html_content = <<>>
    /\ Exited => /\ exit_status \in {1, 120}
                 /\ stdout \in {<<>>, <<Line("error", argv[2], 0)>>}
                 /\ stdout # <<>> => exit_status = 1

\* a run on a missing source directory has ended with the error line and
\* status 1, an application and an older index.html being in the tree
C4_Witness ==
  /\ Exited
  /\ argv = <<s_script, s_gone, s_dot>>
  /\ exit_status = 1
  /\ stdout = <<Line("error", s_gone, 0)>>
  /\ DOMAIN fs = {<<s_index_html>>, <<s_apps, s_nba_highlights_html>>}
  /\ fs[<<s_index_html>>] = OldIndex

\* the files below the source directory whose name ends in .html and is
\* not index.html, as the run found the tree
C5_Qualifying ==
  LET src == components(apps_source_directory)
  IN {p \in DOMAIN fs_start :
        /\ Len(p) > Len(src)
        /\ SubSeq(p, 1, Len(src)) = src
        /\ Len(p[Len(p)]) >= 5
        /\ SubSeq(p[Len(p)], Len(p[Len(p)]) - 4, Len(p[Len(p)])) = s_html
        /\ p[Len(p)] # s_index_html}

\* the current run has written its page
C5_PageWritten == pc \in {"report", "exit"} /\ Len(written) = run

\* C5: no entry is ever a file named index.html, and once a run has
\* written its page the number of cards in it, the count in its header
\* and the count in the line reported, when one is printed, all equal the
\* number of qualifying files.
C5_CountsEqualQualifying ==
  /\ \A i \in 1..Len(app_files_with_paths) :
       basename(app_files_with_paths[i][1]) # s_index_html
  /\ Succeeded => C5_PageWritten
  /\ C5_PageWritten =>
       LET page == fs[OutputFile]
           n == Cardinality(C5_Qualifying)
       IN /\ Cardinality(CardsOf(page)) = n
          /\ Len(page) = n + 2
          /\ page[1].part = "head" /\ page[1].count = n
          /\ \A i \in 1..Len(stdout) :
               stdout[i] = Line("generated",
                                output_path_of(output_index_directory), n)
          /\ \A i \in CardsOf(page) : basename(page[i].href) # s_index_html

\* a successful run over apps holding one application and an index.html:
\* one card, and a count of 1 reported
C5_Witness ==
  /\ Succeeded
  /\ apps_source_directory = s_apps
  /\ {<<s_apps, s_index_html>>, <<s_apps, s_weather, s_today_html>>}
       \subseteq DOMAIN fs_start
  /\ Cardinality(CardsOf(fs[OutputFile])) = 1
  /\ Len(stdout) = 1 /\ stdout[1].msg = "generated" /\ stdout[1].count = 1

C6_Ordered(l) ==
  \A i, j \in 1..Len(l) :
    i < j => ~str_lt(lower(l[j][1]), lower(l[i][1]))

C6_Stable(old, new) ==
  /\ Len(new) = Len(old)
  /\ \A i \in 1..Len(old) : \E a \in 1..Len(new) : new[a] = old[i]
  /\ \A i, j \in 1..Len(old) :
       (i < j /\ lower(old[i][1]) = lower(old[j][1])) =>
         \E a, b \in 1..Len(new) :
           a < b /\ new[a] = old[i] /\ new[b] = old[j]

\* C6: the sort leaves the entries in non-decreasing order of lower(href),
\* entries with equal lower(href) in the order the walk met them; the page
\* has one card per entry in that order, and that page is what is written.
C6_SortedStable ==
  [][/\ pc = "sort" =>
          /\ C6_Ordered(app_files_with_paths')
          /\ C6_Stable(app_files_with_paths, app_files_with_paths')
     /\ pc = "render" =>
          /\ app_files_with_paths' = app_files_with_paths
          /\ Len(full_html_content') = Len(app_files_with_paths) + 2
          /\ \A i \in 1..Len(app_files_with_paths) :
               /\ full_html_content'[i + 1].part = "card"
               /\ full_html_content'[i + 1].href = app_files_with_paths[i][1]
     /\ pc \in {"open", "write"} =>
          /\ app_files_with_paths' = app_files_with_paths
          /\ full_html_content' = full_html_content
     /\ (pc = "write" /\ pc' = "report") =>
          fs'[OutputFile] = full_html_content
     /\ pc = "report" =>
          /\ app_files_with_paths' = app_files_with_paths
          /\ fs' = fs]_vars

\* a page was written in which flip.html comes before Flip.html: equal
\* lower(href), kept in the order of the walk
C6_Witness ==
  /\ Succeeded
  /\ Len(app_files_with_paths) = 2
  /\ app_files_with_paths[1][1] = h_apps_game_flip
  /\ app_files_with_paths[2][1] = h_apps_game_Flip
  /\ fs[OutputFile][2].href = h_apps_game_flip
  /\ fs[OutputFile][3].href = h_apps_game_Flip

C7_Scenario ==
  /\ Succeeded
  /\ argv = <<s_script, s_apps, s_dot>>
  /\ DOMAIN fs_start =
       {<<s_apps, s_weather, s_today_html>>, <<s_apps, s_index_html>>}

C7_OneCard(glyph) ==
  LET page == fs[<<s_index_html>>]
  IN /\ Len(page) = 3
     /\ page[2].part = "card"
     /\ page[2].href = h_apps_weather_today
     /\ page[2].display_name = d_WEATHER_TODAY
     /\ page[2].icon = glyph

\* C7 as claimed: the scenario yields one card, apps/weather/today.html,
\* WEATHER / TODAY, with the default glyph.
C7_WeatherAloneDefaultIcon == C7_Scenario => C7_OneCard(icon_default)

\* C7 as amended: the scenario yields one card, apps/weather/today.html,
\* WEATHER / TODAY, with the weather glyph: WEATHER alone matches the rule.
C7_WeatherAloneWeatherIcon == C7_Scenario => C7_OneCard(icon_weather)

\* the scenario has run: one card in ./index.html
C7_Witness == C7_Scenario /\ Len(fs[<<s_index_html>>]) = 3

\* the display name the claim gives: only the last five characters of the
\* file name go, then dashes to spaces and upper case
C8_Expected(x) ==
  LET base == basename(x[1])
      stem == SubSeq(base, 1, Len(base) - 5)
      shown == [i \in 1..Len(stem) |->
                  IF stem[i] = "-" THEN " " ELSE upper_ch[stem[i]]]
  IN IF x[2] # <<>> THEN upper(x[2]) \o s_sep \o shown ELSE shown

\* C8: every card of a rendered page shows UPPER(subfolder) / UPPER(file
\* name less its trailing .html, dashes as spaces), the subfolder part
\* only when there is one.
C8_DisplayName ==
  pc \in {"open", "write", "exit"} =>
    \A i \in 1..Len(app_files_with_paths) :
      (Len(full_html_content) = Len(app_files_with_paths) + 2) =>
        full_html_content[i + 1].display_name
          = C8_Expected(app_files_with_paths[i])

\* the table of the claim, in its order
C9_Table ==
  <<<<{kw_NBA}, icon_nba>>,
    <<{kw_NFL}, icon_nfl>>,
    <<{kw_MLB}, icon_mlb>>,
    <<{kw_WEATHER}, icon_weather>>,
    <<{kw_GAME, kw_FLIP, kw_QWINGO}, icon_game>>,
    <<{kw_LOGOMAP}, icon_logomap>>,
    <<{kw_PHOTO}, icon_photo>>,
    <<{kw_PANEL}, icon_panel>>,
    <<{kw_API}, icon_api>>,
    <<{kw_AIRPORT}, icon_airport>>,
    <<{kw_RECEIPT}, icon_receipt>>,
    <<{kw_SPORTS}, icon_sports>>>>

C9_Hits(name) ==
  {k \in 1..Len(C9_Table) :
     \E kw \in C9_Table[k][1] :
       \E i \in 1..Len(name) :
         /\ i + Len(kw) - 1 <= Len(name)
         /\ \A j \in 1..Len(kw) : name[i + j - 1] = kw[j]}

\* C9: the glyph of every card is that of the earliest row of the table
\* with a keyword occurring in the card's display name, and the default
\* glyph exactly when no row has one.
C9_IconFirstMatch ==
  \A i \in CardsOf(full_html_content) :
    LET name == full_html_content[i].display_name
        hits == C9_Hits(name)
    IN /\ hits = {} <=> full_html_content[i].icon = icon_default
       /\ hits # {} =>
            \E k \in hits :
              /\ \A m \in hits : k <= m
              /\ full_html_content[i].icon = C9_Table[k][2]

\* a card SPORTS / NBA was rendered with the basketball: NBA, the earlier
\* row, wins over SPORTS, which comes first in the name
C9_Witness ==
  \E i \in CardsOf(full_html_content) :
    /\ full_html_content[i].display_name = d_SPORTS_NBA
    /\ full_html_content[i].icon = icon_nba

\* C10: all the pages written by successive runs on the same arguments
\* and the same tree are equal.
C10_RerunsWriteTheSamePage ==
  \A i, j \in 1..Len(written) : written[i] = written[j]

====
